---- MODULE Spec2Model ----
(***************************************************************************)
(* Model of the Heikin-Ashi doji-reversal trading engine:                  *)
(*   heikin_ashi.py  - candle transformer and doji classifier              *)
(*   conditions.py   - signal rule engine                                  *)
(*   positions.py    - PositionManager (entry, ratchet, exit)              *)
(*   strategy.py     - strategy_step, one evaluation cycle                 *)
(*                                                                         *)
(* Arithmetic.  The program works on Python floats; the model works on     *)
(* exact rationals.  Every price is an integer number of "points", where   *)
(* one price unit is Unit points, so that the halvings of the Heikin-Ashi  *)
(* recurrence and the percentage levels are exact.  Percentages are whole  *)
(* numbers.  Inputs are positive prices.                                   *)
(***************************************************************************)
EXTENDS Integers, Sequences, FiniteSets, TLC

\* ------------------------------------------------------------------ bounds
MaxBars == 3      \* longest bar history the bar source returns
MaxTs == 2        \* bar timestamps are 1..MaxTs
MaxNow == 3       \* wall-clock times are 0..MaxNow
MaxRules == 2     \* longest rule list handed to a ConditionEngine
MaxSinks == 3     \* longest notifier list handed to a ConditionEngine
MaxTick == 10     \* candle prices handed to the classifier are 0..MaxTick

\* ------------------------------------------------------- units and values
HAScale == 2 ^ (MaxBars + 1)      \* denominators of the HA recurrence
Unit == 100 * HAScale             \* points per price unit

NoneStr == "None"                 \* Python None where a string is expected
NoTs == 0                         \* last_candle_ts is None
NoLtp == 0                        \* get_ltp() returned None
NoTime == 0 - 1                   \* session_start / session_end is None

Truthy(s) == s \notin {NoneStr, ""}

Max2(a, b) == IF a >= b THEN a ELSE b
Min2(a, b) == IF a <= b THEN a ELSE b
Abs(a) == IF a >= 0 THEN a ELSE 0 - a

\* "{x:.2f}" of the rational num/den (den > 0): hundredths, nearest
Fmt2(num, den) ==
    IF num >= 0 THEN (2 * num * 100 + den) \div (2 * den)
    ELSE 0 - ((2 * (0 - num) * 100 + den) \div (2 * den))

\* ------------------------------------------------------------ config.py
Config(sl, tp, tr) ==
    [ fallback_qty           |-> 50,
      capital_per_trade      |-> 100000,
      max_risk_per_trade_pct |-> 1,
      profit_target_pct      |-> tp,
      stop_loss_pct          |-> sl,
      trailing_stop_pct      |-> tr,
      webhook_url            |-> NoneStr ]

\* the defaults of the dataclass; a zero trailing percent; a trail wider
\* than the stop-loss
Configs == { Config(1, 10, 1), Config(1, 10, 0), Config(1, 10, 3) }

\* ---------------------------------------------------------- positions.py
NoPosition ==
    [ side |-> "NONE", qty |-> 0, entry_price |-> 0, stop_loss |-> 0,
      target |-> 0, trailing_stop |-> 0, extreme_price |-> 0,
      order_id |-> NoneStr ]

has_open_position(position) == position # NoPosition

\* one place_market_order call: its arguments, its call site and its answer
Order(side, qty, purpose, order_id) ==
    [ side |-> side, qty |-> qty, purpose |-> purpose, order_id |-> order_id ]

\* one message handed to the notifiers / appended to the event log
Msg(kind) ==
    [ kind |-> kind, side |-> "", reason |-> "", qty |-> 0,
      price |-> 0, entry |-> 0, pnl |-> 0, doji |-> "", trend |-> "", ts |-> 0 ]

\* the effects of one PositionManager call: self.position afterwards, the
\* orders and notifications sent, the exit reason ("" when no exit), and obj,
\* the fields of the Position object that was held when the call started
PMResult(position, orders, notified, reason, obj) ==
    [ position |-> position, orders |-> orders, notified |-> notified,
      reason |-> reason, obj |-> obj ]

\* variant: the floor of the risk quotient, without the fallback minimum
calc_qty_from_risk_no_minimum(config, entry_price) ==
    LET risk_num == config.capital_per_trade * config.max_risk_per_trade_pct
        risk_den == entry_price * config.stop_loss_pct
    IN  IF risk_den <= 0 THEN config.fallback_qty
        ELSE (risk_num * Unit) \div risk_den

calc_qty_from_risk(config, entry_price) ==
    LET risk_num == config.capital_per_trade * config.max_risk_per_trade_pct
        \* risk_amount = risk_num / 100 ; per_unit_risk = risk_den / (100*Unit)
        risk_den == entry_price * config.stop_loss_pct
    IN  IF risk_den <= 0 THEN config.fallback_qty
        ELSE Max2((risk_num * Unit) \div risk_den, config.fallback_qty)

\* variant: the guard never blocks an entry
entry_blocked_never(position) == FALSE

\* the "already open" guard of _open_position
entry_blocked(position) == position # NoPosition

\* variant: only None counts as a failed entry order
entry_order_failed_none_only(order_id) == order_id = NoneStr

\* "if not order_id" after the entry order
entry_order_failed(order_id) == ~ Truthy(order_id)

\* variant: a SHORT position gets the levels of a LONG one
initial_levels_long_only(config, side, entry_price) ==
    [ stop_loss  |-> (entry_price * (100 - config.stop_loss_pct)) \div 100,
      target     |-> (entry_price * (100 + config.profit_target_pct)) \div 100,
      order_side |-> IF side = "LONG" THEN "BUY" ELSE "SELL" ]

initial_levels(config, side, entry_price) ==
    IF side = "LONG"
    THEN [ stop_loss  |-> (entry_price * (100 - config.stop_loss_pct)) \div 100,
           target     |-> (entry_price * (100 + config.profit_target_pct)) \div 100,
           order_side |-> "BUY" ]
    ELSE [ stop_loss  |-> (entry_price * (100 + config.stop_loss_pct)) \div 100,
           target     |-> (entry_price * (100 - config.profit_target_pct)) \div 100,
           order_side |-> "SELL" ]

open_position(config, position, side, entry_price, order_id) ==
    IF entry_blocked(position)
    THEN PMResult(position, <<>>, <<>>, "", position)
    ELSE
      LET qty == calc_qty_from_risk(config, entry_price)
          lv  == initial_levels(config, side, entry_price)
          ord == Order(lv.order_side, qty, "entry", order_id)
      IN  IF entry_order_failed(order_id)
          THEN PMResult(position, <<ord>>,
                        << [Msg("entry_failed") EXCEPT !.side = side] >>, "",
                        position)
          ELSE PMResult(
                 [ side |-> side, qty |-> qty, entry_price |-> entry_price,
                   stop_loss |-> lv.stop_loss, target |-> lv.target,
                   trailing_stop |-> lv.stop_loss,
                   extreme_price |-> entry_price, order_id |-> order_id ],
                 <<ord>>,
                 << [Msg("opened") EXCEPT !.side = side, !.qty = qty,
                        !.price = Fmt2(entry_price, Unit)] >>, "", position)

open_long(config, position, entry_price, order_id) ==
    open_position(config, position, "LONG", entry_price, order_id)

open_short(config, position, entry_price, order_id) ==
    open_position(config, position, "SHORT", entry_price, order_id)

\* variant: the LONG formula for both sides
pnl_pct_long_only(pos, exit_price) ==
    [ num |-> (exit_price - pos.entry_price) * 100, den |-> pos.entry_price ]

\* realized P&L percentage as the rational num/den
pnl_pct(pos, exit_price) ==
    IF pos.side = "LONG"
    THEN [ num |-> (exit_price - pos.entry_price) * 100, den |-> pos.entry_price ]
    ELSE [ num |-> (pos.entry_price - exit_price) * 100, den |-> pos.entry_price ]

\* the notification _close_position sends for the order's outcome
close_message(pos, reason, exit_price, order_id) ==
    IF Truthy(order_id)
    THEN [Msg("closed") EXCEPT !.side = pos.side, !.reason = reason,
             !.price = Fmt2(exit_price, Unit),
             !.entry = Fmt2(pos.entry_price, Unit),
             !.pnl = Fmt2(pnl_pct(pos, exit_price).num, pnl_pct(pos, exit_price).den)]
    ELSE [Msg("exit_failed") EXCEPT !.reason = reason]

\* variant: the position is kept when the exit order failed
position_after_close_keep_on_failure(pos, order_id) ==
    IF Truthy(order_id) THEN NoPosition ELSE pos

\* self.position at the end of _close_position
position_after_close(pos, order_id) == NoPosition

\* variant: the exit order repeats the side of the entry order
exit_order_side_as_entry(side) == IF side = "LONG" THEN "BUY" ELSE "SELL"

\* the order side of _close_position: SELL closes a LONG, BUY a SHORT
exit_order_side(side) == IF side = "LONG" THEN "SELL" ELSE "BUY"

close_position(position, reason, exit_price, order_id) ==
    IF position = NoPosition
    THEN PMResult(position, <<>>, <<>>, "", position)
    ELSE
      LET order_side == exit_order_side(position.side)
      IN  PMResult(position_after_close(position, order_id),
                   << Order(order_side, position.qty, "exit", order_id) >>,
                   << close_message(position, reason, exit_price, order_id) >>,
                   reason, position)

\* variant: the trail follows every new extreme, without the comparison
ratchet_unguarded(config, pos, price) ==
    IF pos.side = "LONG"
    THEN IF price > pos.extreme_price
         THEN [pos EXCEPT !.extreme_price = price,
                          !.trailing_stop =
                              (price * (100 - config.trailing_stop_pct)) \div 100]
         ELSE pos
    ELSE IF price < pos.extreme_price
         THEN [pos EXCEPT !.extreme_price = price,
                          !.trailing_stop =
                              (price * (100 + config.trailing_stop_pct)) \div 100]
         ELSE pos

\* variant: the trail is put on the new extreme itself, the percentage dropped
ratchet_onto_price(config, pos, price) ==
    IF pos.side = "LONG"
    THEN IF price > pos.extreme_price
         THEN [pos EXCEPT !.extreme_price = price,
                          !.trailing_stop = IF price > pos.trailing_stop
                                            THEN price ELSE pos.trailing_stop]
         ELSE pos
    ELSE IF price < pos.extreme_price
         THEN [pos EXCEPT !.extreme_price = price,
                          !.trailing_stop = IF price < pos.trailing_stop
                                            THEN price ELSE pos.trailing_stop]
         ELSE pos

\* variant: the comparison is reversed, the candidate replaces a tighter trail
ratchet_loosening(config, pos, price) ==
    IF pos.side = "LONG"
    THEN IF price > pos.extreme_price
         THEN LET new_trail == (price * (100 - config.trailing_stop_pct)) \div 100
              IN  [pos EXCEPT !.extreme_price = price,
                              !.trailing_stop = IF new_trail < pos.trailing_stop
                                                THEN new_trail
                                                ELSE pos.trailing_stop]
         ELSE pos
    ELSE IF price < pos.extreme_price
         THEN LET new_trail == (price * (100 + config.trailing_stop_pct)) \div 100
              IN  [pos EXCEPT !.extreme_price = price,
                              !.trailing_stop = IF new_trail > pos.trailing_stop
                                                THEN new_trail
                                                ELSE pos.trailing_stop]
         ELSE pos

\* the extreme / trailing-stop update at the head of on_price_update
ratchet(config, pos, price) ==
    IF pos.side = "LONG"
    THEN IF price > pos.extreme_price
         THEN LET new_trail == (price * (100 - config.trailing_stop_pct)) \div 100
              IN  [pos EXCEPT !.extreme_price = price,
                              !.trailing_stop = IF new_trail > pos.trailing_stop
                                                THEN new_trail
                                                ELSE pos.trailing_stop]
         ELSE pos
    ELSE IF price < pos.extreme_price
         THEN LET new_trail == (price * (100 + config.trailing_stop_pct)) \div 100
              IN  [pos EXCEPT !.extreme_price = price,
                              !.trailing_stop = IF new_trail < pos.trailing_stop
                                                THEN new_trail
                                                ELSE pos.trailing_stop]
         ELSE pos

\* variant: the trailing stop is checked before the target and the hard stop
exit_reason_trailing_first(pos, price) ==
    IF pos.side = "LONG"
    THEN IF price <= pos.trailing_stop THEN "trailing_stop_hit"
         ELSE IF price >= pos.target THEN "profit_target_hit"
         ELSE IF price <= pos.stop_loss THEN "hard_stop_loss_hit"
         ELSE ""
    ELSE IF price >= pos.trailing_stop THEN "trailing_stop_hit"
         ELSE IF price <= pos.target THEN "profit_target_hit"
         ELSE IF price >= pos.stop_loss THEN "hard_stop_loss_hit"
         ELSE ""

\* the chain of exit checks of on_price_update; "" when none matches
exit_reason(pos, price) ==
    IF pos.side = "LONG"
    THEN IF price >= pos.target THEN "profit_target_hit"
         ELSE IF price <= pos.stop_loss THEN "hard_stop_loss_hit"
         ELSE IF price <= pos.trailing_stop THEN "trailing_stop_hit"
         ELSE ""
    ELSE IF price <= pos.target THEN "profit_target_hit"
         ELSE IF price >= pos.stop_loss THEN "hard_stop_loss_hit"
         ELSE IF price >= pos.trailing_stop THEN "trailing_stop_hit"
         ELSE ""

on_price_update(config, position, price, order_id) ==
    IF position = NoPosition
    THEN PMResult(position, <<>>, <<>>, "", position)
    ELSE
      LET pos    == ratchet(config, position, price)
          reason == exit_reason(pos, price)
      IN  IF reason = ""
          THEN PMResult(pos, <<>>, <<>>, "", pos)
          ELSE close_position(pos, reason, price, order_id)

\* --------------------------------------------------------- heikin_ashi.py
Bar(ts, o, h, l, c) ==
    [ timestamp |-> ts, open |-> o * Unit, high |-> h * Unit,
      low |-> l * Unit, close |-> c * Unit ]

\* variant: the next candle opens at the previous smoothed close
next_ha_open_at_close(prev_ha_open, prev_ha_close) == prev_ha_close

\* "ha_open = (prev_ha_open + prev_ha_close) / 2.0"
next_ha_open(prev_ha_open, prev_ha_close) ==
    (prev_ha_open + prev_ha_close) \div 2

RECURSIVE ha_prefix(_, _)
\* the first n Heikin-Ashi candles: n iterations of the loop
ha_prefix(candles, n) ==
    IF n = 0 THEN <<>>
    ELSE
      LET ha       == ha_prefix(candles, n - 1)
          c        == candles[n]
          ha_close == (c.open + c.high + c.low + c.close) \div 4
          ha_open  == IF n = 1
                      THEN (c.open + c.close) \div 2
                      ELSE next_ha_open(ha[n - 1].ha_open, ha[n - 1].ha_close)
      IN  Append(ha,
                 [ timestamp |-> c.timestamp,
                   ha_open   |-> ha_open,
                   ha_high   |-> Max2(c.high, Max2(ha_open, ha_close)),
                   ha_low    |-> Min2(c.low, Min2(ha_open, ha_close)),
                   ha_close  |-> ha_close ])

compute_heikin_ashi(candles) == ha_prefix(candles, Len(candles))

NoDoji == [ doji |-> FALSE, type |-> "" ]

\* variant: a body of exactly max_body_pct of the range is no doji
body_exceeds_or_equals(body, rang) == 10 * body >= 1 * rang

\* "body_pct > max_body_pct", max_body_pct = 0.1
body_exceeds(body, rang) == 10 * body > 1 * rang

\* max_body_pct = 0.1, min_shadow_pct = 0.3; x/rang > p/10 is 10*x > p*rang
classify_heikin_ashi_doji(ha_open, ha_high, ha_low, ha_close) ==
    LET rang         == ha_high - ha_low
        body         == Abs(ha_close - ha_open)
        upper_shadow == ha_high - Max2(ha_open, ha_close)
        lower_shadow == Min2(ha_open, ha_close) - ha_low
    IN  IF rang <= 0 THEN NoDoji
        ELSE IF body_exceeds(body, rang) THEN NoDoji
        ELSE [ doji |-> TRUE,
               type |->
                 IF 10 * upper_shadow < 1 * rang /\ 10 * lower_shadow > 6 * rang
                 THEN "dragonfly"
                 ELSE IF 10 * lower_shadow < 1 * rang /\ 10 * upper_shadow > 6 * rang
                 THEN "gravestone"
                 ELSE IF 10 * upper_shadow > 3 * rang /\ 10 * lower_shadow > 3 * rang
                 THEN "long_legged"
                 ELSE "standard" ]

\* ---------------------------------------------------------- conditions.py
CheckResult(matched, doji, trend, direction) ==
    [ matched |-> matched, doji_type |-> doji, prev_trend_dir |-> trend,
      signal_direction |-> direction ]

\* variant: a previous body of exactly 0.3 of its range is strong enough
trend_too_weak_below_only(prev_body, prev_range) ==
    10 * Abs(prev_body) < 3 * prev_range

\* "if prev_body_pct <= 0.3: return False"
trend_too_weak(prev_body, prev_range) ==
    10 * Abs(prev_body) <= 3 * prev_range

\* variant: the signal follows the previous candle instead of reversing it
reversal_direction_with_trend(prev_body) ==
    IF prev_body > 0 THEN "LONG" ELSE "SHORT"

\* "direction = SHORT if prev_body > 0 else LONG"
reversal_direction(prev_body) ==
    IF prev_body > 0 THEN "SHORT" ELSE "LONG"

\* HeikinAshiDojiReversalCondition.check; the fields are what it leaves in
\* the context ("" for a key it did not set)
doji_reversal_check(ha, require_trend) ==
    IF Len(ha) < 2 THEN CheckResult(FALSE, "", "", "")
    ELSE
      LET prev_candle == ha[Len(ha) - 1]
          last_candle == ha[Len(ha)]
          doji_info   == classify_heikin_ashi_doji(
                            last_candle.ha_open, last_candle.ha_high,
                            last_candle.ha_low, last_candle.ha_close)
          prev_body   == prev_candle.ha_close - prev_candle.ha_open
          trend_dir   == IF prev_body > 0 THEN "bullish" ELSE "bearish"
          prev_range  == prev_candle.ha_high - prev_candle.ha_low
      IN  IF ~ doji_info.doji THEN CheckResult(FALSE, "", "", "")
          ELSE IF require_trend /\ prev_range <= 0
          THEN CheckResult(FALSE, doji_info.type, trend_dir, "")
          ELSE IF require_trend /\ trend_too_weak(prev_body, prev_range)
          THEN CheckResult(FALSE, doji_info.type, trend_dir, "")
          ELSE CheckResult(TRUE, doji_info.type, trend_dir,
                           reversal_direction(prev_body))

\* ------------------------------------------------------ notifications.py
\* one notify call on a sink: did the message reach its destination, and
\* did an exception leave the call
NotifyResult(delivered, raised) == [ delivered |-> delivered, raised |-> raised ]

\* ConsoleNotifier.notify: one log line
console_notify(msg) == NotifyResult(TRUE, FALSE)

\* ListNotifier.notify: append to the target list
list_notify(msg) == NotifyResult(TRUE, FALSE)

\* variant: the exception of a failed post leaves notify
webhook_notify_uncaught(msg, post_ok) == NotifyResult(post_ok, ~ post_ok)

\* WebhookNotifier.notify: the post sits in try/except, a failure is logged
webhook_notify(msg, post_ok) == NotifyResult(post_ok, FALSE)

\* notify of the sink of the given class; post_ok: the HTTP post succeeds
sink_notify(kind, msg, post_ok) ==
    IF kind = "console" THEN console_notify(msg)
    ELSE IF kind = "list" THEN list_notify(msg)
    ELSE webhook_notify(msg, post_ok)

\* ---------------------------------------------- conditions.py, the engine
\* a rule as the engine sees it: its name, the answer of its check on the
\* context and the message its format_message builds
Rule(name, matched, msg) == [ name |-> name, matched |-> matched, msg |-> msg ]

\* "for n in self.notifiers: n.notify(msg)" from sink i on: the calls made,
\* in order, up to the end of the list or the first exception
RECURSIVE notify_from(_, _, _, _)
notify_from(notifiers, i, msg, post_ok) ==
    IF i > Len(notifiers) THEN [ calls |-> <<>>, raised |-> FALSE ]
    ELSE LET nr   == sink_notify(notifiers[i], msg, post_ok)
             call == [ sink |-> i, kind |-> notifiers[i], msg |-> msg,
                       delivered |-> nr.delivered ]
         IN  IF nr.raised THEN [ calls |-> <<call>>, raised |-> TRUE ]
             ELSE LET rest == notify_from(notifiers, i + 1, msg, post_ok)
                  IN  [ calls |-> <<call>> \o rest.calls,
                        raised |-> rest.raised ]

\* variant: no early return, every matching rule is announced and the last
\* one is returned
RECURSIVE evaluate_from_no_return(_, _, _, _)
evaluate_from_no_return(conditions, k, notifiers, post_ok) ==
    IF k > Len(conditions)
    THEN [ cond |-> 0, checked |-> <<>>, calls |-> <<>>, raised |-> FALSE ]
    ELSE LET rest == evaluate_from_no_return(conditions, k + 1, notifiers, post_ok)
             n    == notify_from(notifiers, 1, conditions[k].msg, post_ok)
         IN  IF conditions[k].matched
             THEN [ cond    |-> IF rest.cond # 0 THEN rest.cond ELSE k,
                    checked |-> <<k>> \o rest.checked,
                    calls   |-> n.calls \o rest.calls,
                    raised  |-> n.raised \/ rest.raised ]
             ELSE [ rest EXCEPT !.checked = <<k>> \o rest.checked ]

\* "for cond in self.conditions" from rule k on: cond is the index of the
\* rule returned (0: None, or no return because of an exception), checked
\* the rules whose check was called, calls the notify calls made
RECURSIVE evaluate_from(_, _, _, _)
evaluate_from(conditions, k, notifiers, post_ok) ==
    IF k > Len(conditions)
    THEN [ cond |-> 0, checked |-> <<>>, calls |-> <<>>, raised |-> FALSE ]
    ELSE IF conditions[k].matched
    THEN LET n == notify_from(notifiers, 1, conditions[k].msg, post_ok)
         IN  [ cond |-> IF n.raised THEN 0 ELSE k, checked |-> <<k>>,
               calls |-> n.calls, raised |-> n.raised ]
    ELSE LET rest == evaluate_from(conditions, k + 1, notifiers, post_ok)
         IN  [ rest EXCEPT !.checked = <<k>> \o rest.checked ]

\* ConditionEngine.evaluate
engine_evaluate(conditions, notifiers, post_ok) ==
    evaluate_from(conditions, 1, notifiers, post_ok)

\* the messages the calls delivered to the sinks of one class
delivered_to(calls, kind) ==
    LET hit == SelectSeq(calls, LAMBDA c : c.kind = kind /\ c.delivered)
    IN  [ i \in 1..Len(hit) |-> hit[i].msg ]

\* cond_engine.evaluate(context) over the one-rule list strategy_step builds
evaluate(ha, notifiers, post_ok) ==
    LET chk == doji_reversal_check(ha, TRUE)
        msg == [Msg("signal") EXCEPT
                  !.doji  = chk.doji_type,
                  !.trend = chk.prev_trend_dir,
                  !.side  = chk.signal_direction,
                  !.ts    = ha[Len(ha)].timestamp]
        e   == engine_evaluate(
                 << Rule("heikin_ashi_doji_reversal", chk.matched, msg) >>,
                 notifiers, post_ok)
    IN  [ cond     |-> e.cond # 0,
          context  |-> chk,
          notified |-> IF chk.matched THEN <<msg>> ELSE <<>>,
          calls    |-> e.calls,
          raised   |-> e.raised ]

\* ------------------------------------------------------------ strategy.py
Session(respect, start, end) ==
    [ respect_trading_hours |-> respect, session_start |-> start,
      session_end |-> end ]

\* what one cycle returns, what it sent out and which steps it ran
StepResult(ts, position) ==
    [ ts |-> ts, position |-> position, orders |-> <<>>, notified |-> <<>>,
      event_log |-> <<>>, reason |-> "",
      gated |-> FALSE, bars_fetched |-> FALSE, latest_ts |-> NoTs,
      evaluated |-> FALSE,
      cond |-> FALSE, direction |-> "", after_entry |-> position,
      ltp_fetched |-> FALSE, opu_called |-> FALSE, arg_obj |-> position,
      sink_calls |-> <<>>, raised |-> FALSE ]

\* the notifier list of one cycle: console, event log, and the webhook when
\* a URL is configured
cycle_notifiers(config) ==
    << "console", "list" >> \o
    (IF Truthy(config.webhook_url) THEN << "webhook" >> ELSE <<>>)

\* the guard of the trading-session filter
session_gate_active(session) ==
    /\ session.respect_trading_hours
    /\ session.session_start # NoTime
    /\ session.session_end # NoTime
    /\ session.session_start < session.session_end

\* variant: only a time before the session start counts as outside
outside_window_before_start_only(session, now_time) ==
    now_time < session.session_start


outside_window(session, now_time) ==
    ~ (session.session_start <= now_time /\ now_time <= session.session_end)

\* the return of the filter when the time is outside the window
outside_window_return(config, last_candle_ts, position, ltp, exit_oid) ==
    [ StepResult(last_candle_ts, position) EXCEPT
        !.gated = TRUE, !.event_log = << Msg("outside_window") >> ]

\* variant: the price-update step still runs when no candles came back
no_candles_return_with_update(config, last_candle_ts, position, ltp, exit_oid) ==
    LET upd == IF ltp # NoLtp
               THEN on_price_update(config, position, ltp, exit_oid)
               ELSE PMResult(position, <<>>, <<>>, "", position)
    IN  [ StepResult(last_candle_ts, upd.position) EXCEPT
            !.bars_fetched = TRUE, !.event_log = << Msg("no_candles") >>,
            !.orders = upd.orders, !.notified = upd.notified,
            !.reason = upd.reason, !.after_entry = position,
            !.arg_obj = upd.obj ]

\* the return on an empty candle list
no_candles_return(config, last_candle_ts, position, ltp, exit_oid) ==
    [ StepResult(last_candle_ts, position) EXCEPT
        !.bars_fetched = TRUE, !.event_log = << Msg("no_candles") >> ]

\* variant: every bar is taken as new
is_new_bar_always(latest_ts, last_candle_ts) == TRUE

\* latest["timestamp"] != last_candle_ts
is_new_bar(latest_ts, last_candle_ts) == latest_ts # last_candle_ts

\* variant: the entry goes against the signal's direction
entry_step_reversed(config, position, ha, ev, entry_oid) ==
    IF ev.cond /\ ~ has_open_position(position)
    THEN LET entry_price == ha[Len(ha)].ha_close
             direction   == ev.context.signal_direction
         IN  IF direction = "LONG"
             THEN open_short(config, position, entry_price, entry_oid)
             ELSE IF direction = "SHORT"
             THEN open_long(config, position, entry_price, entry_oid)
             ELSE PMResult(position, <<>>, <<>>, "", position)
    ELSE PMResult(position, <<>>, <<>>, "", position)

\* the entry step taken on a new bar after evaluate
entry_step(config, position, ha, ev, entry_oid) ==
    IF ev.cond /\ ~ has_open_position(position)
    THEN LET entry_price == ha[Len(ha)].ha_close
             direction   == ev.context.signal_direction
         IN  IF direction = "LONG"
             THEN open_long(config, position, entry_price, entry_oid)
             ELSE IF direction = "SHORT"
             THEN open_short(config, position, entry_price, entry_oid)
             ELSE PMResult(position, <<>>, <<>>, "", position)
    ELSE PMResult(position, <<>>, <<>>, "", position)

\* variant: a missing quote is fed to on_price_update as price 0
price_update_step_zero_quote(config, position, ltp, exit_oid) ==
    LET price == IF ltp # NoLtp THEN ltp ELSE 0
        upd   == on_price_update(config, position, price, exit_oid)
    IN  [ pm |-> upd, called |-> TRUE,
          log |-> upd.notified \o
                  << IF ltp # NoLtp
                     THEN [Msg("ltp") EXCEPT !.price = Fmt2(ltp, Unit)]
                     ELSE Msg("ltp_unavailable") >> ]

\* "Update trailing SL / TP / SL on current LTP"
price_update_step(config, position, ltp, exit_oid) ==
    IF ltp # NoLtp
    THEN LET upd == on_price_update(config, position, ltp, exit_oid)
         IN  [ pm |-> upd, called |-> TRUE,
               log |-> upd.notified \o
                       << [Msg("ltp") EXCEPT !.price = Fmt2(ltp, Unit)] >> ]
    ELSE [ pm |-> PMResult(position, <<>>, <<>>, "", position), called |-> FALSE,
           log |-> << Msg("ltp_unavailable") >> ]

\* variant: the price update works on the position the cycle started with
position_at_update_from_start(position, after_entry) == position

\* pos_mgr.position when pos_mgr.on_price_update(ltp) is called: the one
\* the entry step left, so a position opened in this cycle is included
position_at_update(position, after_entry) == after_entry

\* variant: the timestamp of a new bar is not recorded
next_candle_ts_kept(fresh, latest_ts, last_candle_ts) == last_candle_ts

\* "last_candle_ts = latest[timestamp]", first statement of the new-bar
\* branch, before the signal is evaluated
next_candle_ts(fresh, latest_ts, last_candle_ts) ==
    IF fresh THEN latest_ts ELSE last_candle_ts

\* variant: the manager works on a copy of the caller's Position
caller_object_copied(position, obj) == position

\* "pos_mgr.position = position" shares the caller's Position object with
\* the manager: what the manager did to the object it held at the price
\* update (obj) is what the caller's object looks like afterwards
caller_object(position, obj) ==
    IF has_open_position(position) THEN obj ELSE position

strategy_step(config, last_candle_ts, position, session, now_time, candles, ltp, entry_oid, exit_oid, post_ok) ==
    IF session_gate_active(session) /\ outside_window(session, now_time)
    THEN outside_window_return(config, last_candle_ts, position, ltp, exit_oid)
    ELSE IF candles = <<>>
    THEN no_candles_return(config, last_candle_ts, position, ltp, exit_oid)
    ELSE
      LET latest == candles[Len(candles)]
          fresh  == is_new_bar(latest.timestamp, last_candle_ts)
          ha     == compute_heikin_ashi(candles)
          ev     == evaluate(ha, cycle_notifiers(config), post_ok)
          entry  == IF fresh
                    THEN entry_step(config, position, ha, ev, entry_oid)
                    ELSE PMResult(position, <<>>, <<>>, "", position)
          sig    == IF fresh THEN ev.notified ELSE <<>>
          upd    == price_update_step(config,
                                      position_at_update(position, entry.position),
                                      ltp, exit_oid)
      IN  IF fresh /\ ev.raised
          THEN \* the exception leaves strategy_step: nothing is returned
               [ StepResult(last_candle_ts, position) EXCEPT
                   !.notified = sig,
                   !.event_log = delivered_to(ev.calls, "list"),
                   !.bars_fetched = TRUE, !.latest_ts = latest.timestamp,
                   !.evaluated = TRUE, !.sink_calls = ev.calls,
                   !.raised = TRUE ]
          ELSE
          [ ts           |-> next_candle_ts(fresh, latest.timestamp, last_candle_ts),
            position     |-> upd.pm.position,
            orders       |-> entry.orders \o upd.pm.orders,
            notified     |-> sig \o entry.notified \o upd.pm.notified,
            event_log    |-> (IF fresh THEN delivered_to(ev.calls, "list")
                              ELSE <<>>) \o entry.notified \o upd.log,
            reason       |-> upd.pm.reason,
            gated        |-> FALSE,
            bars_fetched |-> TRUE,
            latest_ts    |-> latest.timestamp,
            evaluated    |-> fresh,
            cond         |-> fresh /\ ev.cond,
            direction    |-> IF fresh THEN ev.context.signal_direction ELSE "",
            after_entry  |-> entry.position,
            ltp_fetched  |-> TRUE,
            opu_called   |-> upd.called,
            arg_obj      |-> caller_object(position, upd.pm.obj),
            sink_calls   |-> IF fresh THEN ev.calls ELSE <<>>,
            raised       |-> FALSE ]

\* ------------------------------------------------------------ input sets
\* bar shapes (open, high, low, close) in price units
UpBar == <<100, 120, 100, 120>>
DownBar == <<100, 100, 80, 80>>
DojiBar == <<100, 160, 40, 100>>

\* bar histories the source returns: none, too short, a doji after a strong
\* up / down candle, a doji after a flat candle, no doji
ShapeSeqs ==
    { sh \in { <<>>, <<DojiBar>>, <<DownBar, UpBar, DojiBar>>,
               <<UpBar, DownBar, DojiBar>>, <<UpBar, UpBar, DojiBar>>,
               <<DownBar, UpBar, UpBar>> } : Len(sh) <= MaxBars }

\* a bar history whose latest bar carries timestamp ts
Feed(shapes, ts) ==
    [ i \in 1..Len(shapes) |->
        Bar(ts - (Len(shapes) - i), shapes[i][1], shapes[i][2],
            shapes[i][3], shapes[i][4]) ]

Feeds == { Feed(sh, ts) : sh \in ShapeSeqs, ts \in 1..MaxTs }

Prices == { p * Unit : p \in {90, 96, 98, 102, 104, 110} }
EntryPrices == { p * Unit : p \in {100, 102} }
OrderIds == { NoneStr, "", "ORD-1" }
Nows == 0..MaxNow
Sessions == { Session(TRUE, NoTime, NoTime), Session(TRUE, 1, 2),
              Session(TRUE, 2, 1), Session(FALSE, 1, 2) }

\* ---------------------------------------------------------- state machine
VARIABLES
    config,           \* the RiskConfig of the session
    position,         \* the Position object held by the caller (NoPosition: FLAT)
    last_candle_ts,   \* the last-seen bar timestamp held by the caller
    pc,               \* "idle", or "returned": a cycle returned, not yet stored
    last              \* the call in progress / last call: inputs and effects

vars == << config, position, last_candle_ts, pc, last >>

NoSession == Session(FALSE, NoTime, NoTime)

\* price: the entry price / update price / quote (NoLtp: none) of the call;
\* feed_len, feed_ts: length and latest timestamp of the bar history on offer;
\* feed_avg: the mean of the latest bar's open, high, low and close
Op(kind, price, session, now_time, candles, r) ==
    [ kind |-> kind, pre_position |-> position, pre_ts |-> last_candle_ts,
      price |-> price, session |-> session, now |-> now_time,
      feed_len |-> Len(candles),
      feed_ts |-> IF candles = <<>> THEN NoTs
                  ELSE candles[Len(candles)].timestamp,
      feed_avg |-> IF candles = <<>> THEN 0
                   ELSE LET b == candles[Len(candles)]
                        IN  (b.open + b.high + b.low + b.close) \div 4,
      post_ok |-> TRUE,
      r |-> r ]

NoOp ==
    [ kind |-> "none", pre_position |-> NoPosition, pre_ts |-> NoTs,
      price |-> 0, session |-> NoSession, now |-> 0,
      feed_len |-> 0, feed_ts |-> NoTs, feed_avg |-> 0, post_ok |-> TRUE,
      r |-> StepResult(NoTs, NoPosition) ]

\* the effects of a direct PositionManager call, in the shape of a cycle's
FromPM(pm) ==
    [ StepResult(last_candle_ts, pm.position) EXCEPT
        !.orders = pm.orders, !.notified = pm.notified, !.reason = pm.reason,
        !.arg_obj = pm.obj ]

Init ==
    /\ config \in Configs
    /\ position = NoPosition
    /\ last_candle_ts = NoTs
    /\ pc = "idle"
    /\ last = NoOp

\* ---- calls on one PositionManager
OpenLong ==
    \E entry_price \in EntryPrices, oid \in OrderIds :
      LET pm == open_long(config, position, entry_price, oid)
      IN  /\ position' = pm.position
          /\ last' = Op("open_long", entry_price, NoSession, 0, <<>>, FromPM(pm))
          /\ UNCHANGED << config, last_candle_ts, pc >>

OpenShort ==
    \E entry_price \in EntryPrices, oid \in OrderIds :
      LET pm == open_short(config, position, entry_price, oid)
      IN  /\ position' = pm.position
          /\ last' = Op("open_short", entry_price, NoSession, 0, <<>>, FromPM(pm))
          /\ UNCHANGED << config, last_candle_ts, pc >>

OnPriceUpdate ==
    \E price \in Prices, oid \in OrderIds :
      LET pm == on_price_update(config, position, price, oid)
      IN  /\ position' = pm.position
          /\ last' = Op("on_price_update", price, NoSession, 0, <<>>, FromPM(pm))
          /\ UNCHANGED << config, last_candle_ts, pc >>

NextPM == OpenLong \/ OpenShort \/ OnPriceUpdate

SpecPM == Init /\ [][NextPM]_vars

\* ---- the caller of strategy_step (app.py, "Run Strategy Step")
\* the call itself: the caller's Position object is shared with the cycle
StrategyStep ==
    /\ pc = "idle"
    /\ \E session \in Sessions, now_time \in Nows, candles \in Feeds,
          ltp \in Prices \cup {NoLtp}, entry_oid \in OrderIds,
          exit_oid \in OrderIds :
         LET r == strategy_step(config, last_candle_ts, position, session,
                                now_time, candles, ltp, entry_oid, exit_oid,
                                TRUE)
         IN  /\ position' = r.arg_obj
             /\ last' = Op("strategy_step", ltp, session, now_time, candles, r)
    /\ pc' = "returned"
    /\ UNCHANGED << config, last_candle_ts >>

\* the returned pair replaces the caller's copy
StoreResult ==
    /\ pc = "returned"
    /\ position' = (IF last.r.raised THEN position ELSE last.r.position)
    /\ last_candle_ts' = (IF last.r.raised THEN last_candle_ts ELSE last.r.ts)
    /\ pc' = "idle"
    /\ last' = NoOp
    /\ UNCHANGED config

Next == StrategyStep \/ StoreResult

Spec == Init /\ [][Next]_vars

\* ---- the alerting paths: a ConditionEngine called on its own, and cycles
\* of a session with a webhook URL configured
SinkKinds == { "console", "list", "webhook" }

SinkLists == UNION { [1..n -> SinkKinds] : n \in 0..MaxSinks }

\* rule lists: rule i is named i, announces a message of its own, and its
\* check answers m[i]
RuleLists ==
    { [ i \in 1..n |-> Rule(i, m[i], [Msg("rule") EXCEPT !.ts = i]) ] :
        n \in 0..MaxRules, m \in [1..MaxRules -> BOOLEAN] }

ConfigAlert == [ Config(1, 10, 1) EXCEPT !.webhook_url = "https://hook" ]

InitAlert ==
    /\ config = ConfigAlert
    /\ position = NoPosition
    /\ last_candle_ts = NoTs
    /\ pc = "idle"
    /\ last = NoOp

\* one call of ConditionEngine.evaluate
EngineEvaluate ==
    /\ pc = "idle"
    /\ \E conditions \in RuleLists, notifiers \in SinkLists,
          post_ok \in BOOLEAN :
         last' = [ kind |-> "evaluate", conditions |-> conditions,
                   notifiers |-> notifiers, post_ok |-> post_ok,
                   e |-> engine_evaluate(conditions, notifiers, post_ok) ]
    /\ pc' = "evaluated"
    /\ UNCHANGED << config, position, last_candle_ts >>

\* a cycle outside any session window, the webhook endpoint up or down
StrategyStepAlert ==
    /\ pc = "idle"
    /\ \E candles \in Feeds, ltp \in {NoLtp, 102 * Unit},
          entry_oid \in OrderIds, exit_oid \in OrderIds, post_ok \in BOOLEAN :
         LET r == strategy_step(config, last_candle_ts, position, NoSession,
                                0, candles, ltp, entry_oid, exit_oid, post_ok)
         IN  /\ position' = r.arg_obj
             /\ last' = [ Op("strategy_step", ltp, NoSession, 0, candles, r)
                            EXCEPT !.post_ok = post_ok ]
    /\ pc' = "returned"
    /\ UNCHANGED << config, last_candle_ts >>

NextAlert == EngineEvaluate \/ StrategyStepAlert \/ StoreResult

SpecAlert == InitAlert /\ [][NextAlert]_vars

\* ---- the functions called on their own, each on inputs from a bounded set
\* bar shapes that put the smoothed candles on and around the thresholds of
\* the signal rule, and the two bars of the worked example
FlatBar == <<100, 100, 100, 100>>
Body30Bar == <<100, 110, 100, 102>>     \* after FlatBar: body 3 of range 10
Body40Bar == <<100, 110, 100, 106>>     \* after FlatBar: body 4 of range 10
DojiBar30 == <<100, 160, 44, 102>>      \* after FlatBar, Body30Bar: body 0
DojiBar40 == <<100, 160, 40, 108>>      \* after FlatBar, Body40Bar: body 0
Body10Bar == <<100, 130, 90, 104>>      \* after FlatBar, Body40Bar: body 4 of range 40
ExampleBar1 == <<100, 105, 95, 102>>
ExampleBar2 == <<102, 108, 100, 103>>

BarShapes ==
    { FlatBar, UpBar, DownBar, DojiBar, Body30Bar, Body40Bar, DojiBar30,
      DojiBar40, Body10Bar, ExampleBar1, ExampleBar2 }

\* every bar history of up to MaxBars of these bars, timestamps 1, 2, ...
Histories ==
    { Feed(sh, Len(sh)) : sh \in UNION { [1..n -> BarShapes] : n \in 0..MaxBars } }

Ticks == 0..MaxTick

Capitals == { 1000, 100000 }
RiskPcts == { 1, 2 }
StopPcts == { 0, 1, 2 }
FallbackQtys == { 1, 50 }
QtyEntryPrices == { p * Unit : p \in {100, 200, 300, 3000} }

InitFn ==
    /\ config = Config(1, 10, 1)
    /\ position = NoPosition
    /\ last_candle_ts = NoTs
    /\ pc = "idle"
    /\ last = NoOp

\* classify_heikin_ashi_doji on one candle whose high and low enclose its
\* open and close
ApplyClassify ==
    /\ pc = "idle"
    /\ \E o \in Ticks, h \in Ticks, l \in Ticks, c \in Ticks :
         /\ h >= Max2(o, c)
         /\ l <= Min2(o, c)
         /\ last' = [ kind |-> "classify", ha_open |-> o, ha_high |-> h,
                      ha_low |-> l, ha_close |-> c,
                      r |-> classify_heikin_ashi_doji(o, h, l, c) ]
    /\ pc' = "applied"
    /\ UNCHANGED << config, position, last_candle_ts >>

\* compute_heikin_ashi on one bar history
ApplyComputeHA ==
    /\ pc = "idle"
    /\ \E candles \in Histories :
         last' = [ kind |-> "compute_heikin_ashi", candles |-> candles,
                   ha |-> compute_heikin_ashi(candles) ]
    /\ pc' = "applied"
    /\ UNCHANGED << config, position, last_candle_ts >>

\* HeikinAshiDojiReversalCondition.check on the smoothed candles of one
\* bar history
ApplyCheck ==
    /\ pc = "idle"
    /\ \E candles \in Histories, require_trend \in BOOLEAN :
         LET ha == compute_heikin_ashi(candles)
         IN  last' = [ kind |-> "check", ha |-> ha,
                       require_trend |-> require_trend,
                       r |-> doji_reversal_check(ha, require_trend) ]
    /\ pc' = "applied"
    /\ UNCHANGED << config, position, last_candle_ts >>

\* _calc_qty_from_risk on one risk configuration and entry price
ApplyCalcQty ==
    /\ pc = "idle"
    /\ \E capital \in Capitals, risk \in RiskPcts, sl \in StopPcts,
          fallback \in FallbackQtys, entry_price \in QtyEntryPrices :
         LET cf == [ Config(sl, 10, 1) EXCEPT
                       !.capital_per_trade = capital,
                       !.max_risk_per_trade_pct = risk,
                       !.fallback_qty = fallback ]
         IN  last' = [ kind |-> "calc_qty", config |-> cf,
                       entry_price |-> entry_price,
                       qty |-> calc_qty_from_risk(cf, entry_price) ]
    /\ pc' = "applied"
    /\ UNCHANGED << config, position, last_candle_ts >>

NextFn == ApplyClassify \/ ApplyComputeHA \/ ApplyCheck \/ ApplyCalcQty

SpecFn == InitFn /\ [][NextFn]_vars

\* ================================================================ claims
InOpen == last.kind \in {"open_long", "open_short"}
InUpdate == last.kind = "on_price_update"
InCycle == last.kind = "strategy_step"

TargetHit(pos, price) ==
    IF pos.side = "LONG" THEN price >= pos.target ELSE price <= pos.target
StopHit(pos, price) ==
    IF pos.side = "LONG" THEN price <= pos.stop_loss ELSE price >= pos.stop_loss
TrailHit(pos, price) ==
    IF pos.side = "LONG" THEN price <= pos.trailing_stop
    ELSE price >= pos.trailing_stop

ExitOrders(orders) == SelectSeq(orders, LAMBDA o : o.purpose = "exit")
EntryOrders(orders) == SelectSeq(orders, LAMBDA o : o.purpose = "entry")

\* C1: open_long / open_short called while a position is held changes no
\* field of the held position and submits no order.
C1_OpenWhileHeldIsNoOp ==
    (InOpen /\ last.pre_position # NoPosition)
        => /\ position = last.pre_position
           /\ last.r.orders = <<>>

\* an open for the other side at another price arrives while a position is held
C1_Witness ==
    /\ InOpen
    /\ last.pre_position # NoPosition
    /\ last.pre_position.side = "SHORT"
    /\ last.kind = "open_long"
    /\ last.price # last.pre_position.entry_price

\* C2: an open in state FLAT whose entry order gets no order id leaves the
\* state FLAT and emits the entry-failure notification.
C2_FailedEntryStaysFlat ==
    (/\ InOpen
     /\ last.pre_position = NoPosition
     /\ Len(last.r.orders) = 1
     /\ ~ Truthy(last.r.orders[1].order_id))
        => /\ position = NoPosition
           /\ Len(last.r.notified) = 1
           /\ last.r.notified[1].kind = "entry_failed"

C2_Witness ==
    /\ InOpen
    /\ last.pre_position = NoPosition
    /\ Len(last.r.orders) = 1
    /\ last.r.orders[1].purpose = "entry"
    /\ last.r.orders[1].order_id = ""
    /\ position = NoPosition

\* the position of the exit-priority scenario: target 110, stop 99, trail 100
ExamplePosition(extreme) ==
    [ side |-> "LONG", qty |-> 1000, entry_price |-> 100 * Unit,
      stop_loss |-> 99 * Unit, target |-> 110 * Unit,
      trailing_stop |-> 100 * Unit, extreme_price |-> extreme,
      order_id |-> "ORD-1" ]

\* C3: on a price update with an open position the exit reason is the first
\* of target, hard stop, trailing stop whose condition holds for the price
\* (none: no exit), at most one order is submitted, and it is submitted iff
\* an exit happens; the LONG position target=110, stop=99, trail=100 exits
\* at price 111 with the target reason.
C3_ExitPriority ==
    /\ (InUpdate /\ last.pre_position # NoPosition) =>
         LET pos == last.r.arg_obj
             p   == last.price
         IN  /\ last.r.reason =
                  IF TargetHit(pos, p) THEN "profit_target_hit"
                  ELSE IF StopHit(pos, p) THEN "hard_stop_loss_hit"
                  ELSE IF TrailHit(pos, p) THEN "trailing_stop_hit"
                  ELSE ""
             /\ Len(last.r.orders) <= 1
             /\ (Len(last.r.orders) = 1) <=> (last.r.reason # "")
    /\ \A cf \in Configs, x \in {101 * Unit, 112 * Unit}, oid \in OrderIds :
         on_price_update(cf, ExamplePosition(x), 111 * Unit, oid).reason
            = "profit_target_hit"

\* the target and the trailing stop are both hit by the same price
C3_Witness ==
    /\ InUpdate
    /\ last.pre_position # NoPosition
    /\ TargetHit(last.r.arg_obj, last.price)
    /\ TrailHit(last.r.arg_obj, last.price)
    /\ last.r.reason = "profit_target_hit"

\* C4: a price update that leaves a position open never moves its trailing
\* stop against it: not down for LONG, not up for SHORT.  This holds for
\* every price, so in particular along non-decreasing (LONG) and
\* non-increasing (SHORT) price sequences.
C4_TrailingMonotonic ==
    (InUpdate /\ last.pre_position # NoPosition /\ position # NoPosition) =>
        /\ position.side = last.pre_position.side
        /\ position.side = "LONG" =>
             position.trailing_stop >= last.pre_position.trailing_stop
        /\ position.side = "SHORT" =>
             position.trailing_stop <= last.pre_position.trailing_stop

\* a new high of a LONG position whose candidate trail is below the current one
C4_Witness ==
    /\ InUpdate
    /\ last.pre_position # NoPosition
    /\ position # NoPosition
    /\ position.side = "LONG"
    /\ position.extreme_price > last.pre_position.extreme_price
    /\ (position.extreme_price * (100 - config.trailing_stop_pct)) \div 100
          < last.pre_position.trailing_stop

\* C5: a price update that decides an exit ends FLAT whatever the exit
\* order's answer, with exactly one exit order; a failed exit order is
\* reported by the exit-failure notification; and a price update in state
\* FLAT submits no order, so the exit is not retried.
C5_ExitClearsUnconditionally ==
    /\ (InUpdate /\ last.r.reason # "") =>
          /\ position = NoPosition
          /\ Len(last.r.orders) = 1
          /\ last.r.orders[1].purpose = "exit"
          /\ ~ Truthy(last.r.orders[1].order_id) =>
                last.r.notified =
                   << [Msg("exit_failed") EXCEPT !.reason = last.r.reason] >>
    /\ (InUpdate /\ last.pre_position = NoPosition) =>
          /\ position = NoPosition
          /\ last.r.orders = <<>>

C5_Witness ==
    /\ InUpdate
    /\ last.r.reason = "trailing_stop_hit"
    /\ Len(last.r.orders) = 1
    /\ last.r.orders[1].order_id = NoneStr
    /\ position = NoPosition

\* the P&L percentage of the exit, as the message prints it
ExpectedPnl ==
    LET e == last.pre_position.entry_price
        x == last.price
    IN  IF last.pre_position.side = "LONG"
        THEN Fmt2((x - e) * 100, e)
        ELSE Fmt2((e - x) * 100, e)

ReportsPnl(m) == m.kind = "closed" /\ m.pnl = ExpectedPnl

\* C6 as stated: every exit reports the realized P&L percentage in a
\* notification, whatever the exit order's answer.
C6_PnlReportedRegardless ==
    (InUpdate /\ last.r.reason # "") =>
        \E i \in 1..Len(last.r.notified) : ReportsPnl(last.r.notified[i])

\* C6, amended: an exit whose order gets an order id reports the realized
\* P&L percentage ((exit-entry)/entry*100 for LONG, (entry-exit)/entry*100
\* for SHORT) with the exit reason; an exit whose order gets none sends the
\* exit-failure notification with the reason and reports no P&L.
C6_PnlReportedOnSuccess ==
    (InUpdate /\ last.r.reason # "") =>
        /\ Len(last.r.notified) = 1
        /\ Len(last.r.orders) = 1
        /\ IF Truthy(last.r.orders[1].order_id)
           THEN /\ ReportsPnl(last.r.notified[1])
                /\ last.r.notified[1].reason = last.r.reason
           ELSE /\ last.r.notified[1].kind = "exit_failed"
                /\ last.r.notified[1].reason = last.r.reason
                /\ last.r.notified[1].pnl = 0

\* a SHORT position exits with a loss and the exit order is answered
C6_Witness ==
    /\ InUpdate
    /\ last.r.reason = "hard_stop_loss_hit"
    /\ last.pre_position.side = "SHORT"
    /\ Len(last.r.orders) = 1
    /\ Truthy(last.r.orders[1].order_id)
    /\ ExpectedPnl < 0
    /\ ReportsPnl(last.r.notified[1])

\* ---- claims about one cycle, read in the state where it has returned
WindowConfigured(session) ==
    /\ session.respect_trading_hours
    /\ session.session_start # NoTime
    /\ session.session_end # NoTime

OutsideWindow(session, now_time) ==
    now_time < session.session_start \/ now_time > session.session_end

\* the cycle was offered a non-empty history whose latest bar is the one
\* the caller has already recorded
DuplicateBar ==
    /\ InCycle
    /\ last.r.bars_fetched
    /\ last.feed_len > 0
    /\ last.feed_ts = last.pre_ts

\* C7: a cycle fed the latest bar timestamp the caller already holds runs no
\* signal evaluation, sends no signal notification, submits no entry order
\* and keeps the timestamp, but fetches the quote and, when there is one,
\* applies on_price_update to the held position.
C7_DuplicateBarSuppressed ==
    DuplicateBar =>
        /\ ~ last.r.evaluated
        /\ \A i \in 1..Len(last.r.notified) : last.r.notified[i].kind # "signal"
        /\ EntryOrders(last.r.orders) = <<>>
        /\ last.r.ts = last.pre_ts
        /\ last.r.ltp_fetched
        /\ IF last.price # NoLtp
           THEN /\ last.r.opu_called
                /\ \E oid \in OrderIds :
                     LET u == on_price_update(config, last.pre_position,
                                              last.price, oid)
                     IN  /\ last.r.position = u.position
                         /\ last.r.orders = u.orders
                         /\ position = u.obj
           ELSE /\ ~ last.r.opu_called
                /\ last.r.position = last.pre_position

\* a duplicate bar arrives while a position is held and the quote moves it
C7_Witness ==
    /\ DuplicateBar
    /\ last.pre_position # NoPosition
    /\ last.r.opu_called
    /\ last.r.position # NoPosition
    /\ last.r.position # last.pre_position

\* the early return of the session gate: the input pair comes back, the
\* held Position is untouched, nothing is fetched, no order is submitted and
\* the event log gets the one "outside trading window" line
SkippedCycle ==
    /\ last.r.gated
    /\ last.r.ts = last.pre_ts
    /\ last.r.position = last.pre_position
    /\ position = last.pre_position
    /\ ~ last.r.bars_fetched
    /\ ~ last.r.ltp_fetched
    /\ last.r.orders = <<>>
    /\ last.r.event_log = << Msg("outside_window") >>

\* C8 as stated: with a session window configured and the current time
\* outside [start, end], the cycle is skipped.
C8_GateSkipsOutsideWindow ==
    (/\ InCycle
     /\ WindowConfigured(last.session)
     /\ OutsideWindow(last.session, last.now)) => SkippedCycle

\* C8, amended: with a session window configured whose start is before its
\* end, and the current time outside [start, end], the cycle is skipped.
C8_GateSkipsOutsideOrderedWindow ==
    (/\ InCycle
     /\ WindowConfigured(last.session)
     /\ last.session.session_start < last.session.session_end
     /\ OutsideWindow(last.session, last.now)) => SkippedCycle

\* a cycle after the session end, while a position is held, with a quote
\* on offer that would have closed it
C8_Witness ==
    /\ InCycle
    /\ WindowConfigured(last.session)
    /\ last.session.session_start < last.session.session_end
    /\ last.now > last.session.session_end
    /\ last.pre_position # NoPosition
    /\ last.price # NoLtp
    /\ on_price_update(config, last.pre_position, last.price, "ORD-1").reason # ""
    /\ SkippedCycle

\* C9: a cycle whose bar source returns no bars returns the input pair and
\* leaves the held Position untouched: no signal evaluation, no order, no
\* quote fetch, no price update; the event log gets the "no candles" line.
C9_EmptyBarsReturnUnchanged ==
    (InCycle /\ last.r.bars_fetched /\ last.feed_len = 0) =>
        /\ last.r.ts = last.pre_ts
        /\ last.r.position = last.pre_position
        /\ position = last.pre_position
        /\ ~ last.r.evaluated
        /\ last.r.orders = <<>>
        /\ last.r.notified = <<>>
        /\ ~ last.r.ltp_fetched
        /\ ~ last.r.opu_called
        /\ last.r.event_log = << Msg("no_candles") >>

\* no bars come back while a position is held and the quote on offer would
\* have closed it
C9_Witness ==
    /\ InCycle
    /\ last.r.bars_fetched
    /\ last.feed_len = 0
    /\ last.pre_position # NoPosition
    /\ last.price # NoLtp
    /\ on_price_update(config, last.pre_position, last.price, "ORD-1").reason # ""
    /\ last.r.position = last.pre_position

\* C10: a cycle whose quote fetch returns none does not call
\* on_price_update and submits no exit order; it logs the "unable to fetch"
\* line and returns the position as the entry step left it: the held
\* position untouched, or the position just opened with its initial
\* trailing stop and extreme.
C10_NoQuoteSkipsPriceUpdate ==
    (InCycle /\ last.r.ltp_fetched /\ last.price = NoLtp) =>
        /\ ~ last.r.opu_called
        /\ ExitOrders(last.r.orders) = <<>>
        /\ last.r.reason = ""
        /\ last.r.position = last.r.after_entry
        /\ last.r.event_log # <<>>
        /\ last.r.event_log[Len(last.r.event_log)] = Msg("ltp_unavailable")
        /\ last.pre_position # NoPosition =>
              /\ last.r.position = last.pre_position
              /\ position = last.pre_position
        /\ (last.pre_position = NoPosition /\ last.r.position # NoPosition) =>
              /\ last.r.position.trailing_stop = last.r.position.stop_loss
              /\ last.r.position.extreme_price = last.r.position.entry_price
              /\ Len(last.r.orders) = 1
              /\ Truthy(last.r.orders[1].order_id)

\* the quote is missing in the cycle that opens a position
C10_Witness ==
    /\ InCycle
    /\ last.r.ltp_fetched
    /\ last.price = NoLtp
    /\ last.pre_position = NoPosition
    /\ last.r.position # NoPosition
    /\ last.r.position.side = "LONG"

\* C11: a cycle takes the state from FLAT to OPEN only when the latest bar
\* is new, the signal rule matched (and was announced) and the one entry
\* order got an order id; the opened side is the signal's direction, the
\* order is a BUY for LONG and a SELL for SHORT, and the entry price is the
\* latest smoothed candle's ha_close, the mean of the latest bar's four
\* prices.  A cycle that starts OPEN submits no entry order, and a position
\* returned by a cycle that started FLAT is the one its entry step opened.
C11_OpenOnlyOnNewMatchedSignal ==
    /\ (InCycle /\ last.pre_position = NoPosition
               /\ last.r.after_entry # NoPosition) =>
          LET opened == last.r.after_entry
              eo     == EntryOrders(last.r.orders)
          IN  /\ last.r.bars_fetched
              /\ last.feed_len > 0
              /\ last.feed_ts # last.pre_ts
              /\ last.r.ts = last.feed_ts
              /\ last.r.evaluated
              /\ last.r.cond
              /\ last.r.notified # <<>>
              /\ last.r.notified[1].kind = "signal"
              /\ last.r.notified[1].side = opened.side
              /\ Len(eo) = 1
              /\ Truthy(eo[1].order_id)
              /\ eo[1].side = (IF opened.side = "LONG" THEN "BUY" ELSE "SELL")
              /\ opened.side = last.r.direction
              /\ opened.side \in {"LONG", "SHORT"}
              /\ opened.entry_price = last.feed_avg
    /\ (InCycle /\ last.pre_position # NoPosition) =>
          EntryOrders(last.r.orders) = <<>>
    /\ (InCycle /\ last.pre_position = NoPosition
               /\ last.r.position # NoPosition) =>
          last.r.after_entry # NoPosition

\* a cycle that starts FLAT opens a SHORT position and returns it
C11_Witness ==
    /\ InCycle
    /\ last.pre_position = NoPosition
    /\ last.r.after_entry # NoPosition
    /\ last.r.after_entry.side = "SHORT"
    /\ last.r.direction = "SHORT"
    /\ last.r.position # NoPosition

\* ---- claims about the rule engine and its alert sinks
InEvaluate == last.kind = "evaluate"

\* the first rule of the list whose check answers true (0: none)
FirstMatch(conditions) ==
    IF \E k \in 1..Len(conditions) : conditions[k].matched
    THEN CHOOSE k \in 1..Len(conditions) :
           /\ conditions[k].matched
           /\ \A j \in 1..(k - 1) : ~ conditions[j].matched
    ELSE 0

\* C12: ConditionEngine.evaluate returns the first rule of the list whose
\* check matches, after one notify call on every registered sink, in list
\* order, each with that rule's message; the rules after it are not checked
\* and not announced; when no rule matches it returns none and makes no
\* notify call.
C12_FirstMatchAnnouncedOnce ==
    InEvaluate =>
        LET k == FirstMatch(last.conditions)
            e == last.e
        IN  /\ e.cond = k
            /\ k = 0 => /\ e.calls = <<>>
                        /\ Len(e.checked) = Len(last.conditions)
            /\ k # 0 =>
                  /\ e.checked = [ j \in 1..k |-> j ]
                  /\ Len(e.calls) = Len(last.notifiers)
                  /\ \A i \in 1..Len(e.calls) :
                        /\ e.calls[i].sink = i
                        /\ e.calls[i].msg = last.conditions[k].msg

\* two rules match, three sinks are registered, the first rule is returned
C12_Witness ==
    /\ InEvaluate
    /\ Len(last.conditions) = 2
    /\ last.conditions[1].matched
    /\ last.conditions[2].matched
    /\ Len(last.notifiers) = 3
    /\ last.e.cond = 1
    /\ Len(last.e.calls) = 3

\* a notify call on a webhook sink whose post fails is among the sinks
WebhookFails(notifiers, post_ok) ==
    /\ ~ post_ok
    /\ \E i \in 1..Len(notifiers) : notifiers[i] = "webhook"

\* the cycle found a new bar and the signal rule matched on it
SignalAnnounced ==
    /\ InCycle
    /\ last.r.notified # <<>>
    /\ last.r.notified[1].kind = "signal"

\* C13: a webhook sink whose post fails while a matched rule is announced
\* stops nothing: every registered sink gets its notify call, the console
\* and list sinks receive the message, and evaluate returns the matched
\* rule; in a cycle the signal reaches the event log and the entry step
\* runs, submitting the entry order when the state is FLAT.
C13_SinkFailureContained ==
    /\ (/\ InEvaluate
        /\ FirstMatch(last.conditions) # 0
        /\ WebhookFails(last.notifiers, last.post_ok)) =>
          /\ ~ last.e.raised
          /\ last.e.cond = FirstMatch(last.conditions)
          /\ Len(last.e.calls) = Len(last.notifiers)
          /\ \A i \in 1..Len(last.e.calls) :
                /\ last.e.calls[i].kind = last.notifiers[i]
                /\ last.e.calls[i].kind # "webhook" => last.e.calls[i].delivered
    /\ (/\ SignalAnnounced
        /\ WebhookFails(cycle_notifiers(config), last.post_ok)) =>
          /\ ~ last.r.raised
          /\ last.r.cond
          /\ last.r.event_log # <<>>
          /\ last.r.event_log[1] = last.r.notified[1]
          /\ last.pre_position = NoPosition =>
                /\ Len(EntryOrders(last.r.orders)) = 1
                /\ Truthy(EntryOrders(last.r.orders)[1].order_id) =>
                      /\ last.r.after_entry # NoPosition
                      /\ last.r.after_entry.side = last.r.notified[1].side

\* the webhook is down in the cycle whose signal opens a position
C13_Witness ==
    /\ SignalAnnounced
    /\ WebhookFails(cycle_notifiers(config), last.post_ok)
    /\ last.pre_position = NoPosition
    /\ last.r.after_entry # NoPosition
    /\ last.r.position # NoPosition

\* a failing webhook sink is registered ahead of the list sink
C13_WitnessEngine ==
    /\ InEvaluate
    /\ FirstMatch(last.conditions) # 0
    /\ ~ last.post_ok
    /\ Len(last.notifiers) >= 2
    /\ last.notifiers[1] = "webhook"
    /\ last.notifiers[2] = "list"
    /\ Len(last.e.calls) = Len(last.notifiers)

\* ---- claims about the signal rule, the classifier, the transformer and
\* the sizing rule
InCheck == last.kind = "check"
InClassify == last.kind = "classify"
InCompute == last.kind = "compute_heikin_ashi"
InCalcQty == last.kind = "calc_qty"

\* the last two candles of a candle sequence (fewer when it is shorter)
LastTwo(ha) == SubSeq(ha, Max2(1, Len(ha) - 1), Len(ha))

\* C14: a matched signal is SHORT if and only if the second-to-last
\* smoothed candle is bullish (ha_close - ha_open > 0) and LONG otherwise;
\* the whole answer of the check is the answer it gives on the last two
\* smoothed candles alone.
C14_DirectionFromPreviousCandle ==
    InCheck =>
        /\ last.r.matched =>
              LET prev == last.ha[Len(last.ha) - 1]
              IN  /\ last.r.signal_direction \in {"SHORT", "LONG"}
                  /\ (last.r.signal_direction = "SHORT")
                        <=> (prev.ha_close - prev.ha_open > 0)
        /\ last.r = doji_reversal_check(LastTwo(last.ha), last.require_trend)

\* a SHORT signal on a three-candle history whose first candle is bearish
C14_Witness ==
    /\ InCheck
    /\ last.r.matched
    /\ last.r.signal_direction = "SHORT"
    /\ Len(last.ha) = 3
    /\ last.ha[1].ha_close < last.ha[1].ha_open
    /\ last.ha[3].ha_close <= last.ha[3].ha_open

\* C15: for a candle with high >= max(open, close), low <= min(open, close)
\* and high > low the classifier answers none exactly when
\* |close - open| / (high - low) > 0.1; otherwise it answers one type:
\* dragonfly when the upper shadow is under 0.1 and the lower over 0.6 of
\* the range, gravestone when the lower is under 0.1 and the upper over 0.6,
\* long_legged when both are over 0.3, standard in every other case (the
\* three conditions exclude one another, so this is the priority order).
\* A candle of range 0 gets none.
C15_ClassifierPartition ==
    InClassify =>
        LET rang  == last.ha_high - last.ha_low
            body  == Abs(last.ha_close - last.ha_open)
            upper == last.ha_high - Max2(last.ha_open, last.ha_close)
            lower == Min2(last.ha_open, last.ha_close) - last.ha_low
            dragonfly   == 10 * upper < rang /\ 10 * lower > 6 * rang
            gravestone  == 10 * lower < rang /\ 10 * upper > 6 * rang
            long_legged == 10 * upper > 3 * rang /\ 10 * lower > 3 * rang
        IN  /\ rang <= 0 => ~ last.r.doji
            /\ rang > 0 =>
                  /\ (~ last.r.doji) <=> (10 * body > rang)
                  /\ last.r.doji =>
                        /\ last.r.type \in {"dragonfly", "gravestone",
                                             "long_legged", "standard"}
                        /\ (last.r.type = "dragonfly") <=> dragonfly
                        /\ (last.r.type = "gravestone") <=> gravestone
                        /\ (last.r.type = "long_legged") <=> long_legged
            /\ ~ last.r.doji => last.r = NoDoji

\* a body of exactly one tenth of the range, between two long shadows
C15_Witness ==
    /\ InClassify
    /\ last.ha_high - last.ha_low = 10
    /\ Abs(last.ha_close - last.ha_open) = 1
    /\ last.r.doji
    /\ last.r.type = "long_legged"

\* C16: compute_heikin_ashi answers one smoothed candle per bar, in order:
\* ha_close is the mean of the bar's open, high, low and close; ha_open is
\* the mean of the bar's open and close for the first candle and the mean
\* of the previous candle's ha_open and ha_close afterwards; ha_high and
\* ha_low are the largest and smallest of the bar's high (low), ha_open and
\* ha_close.  The bars (100,105,95,102), (102,108,100,103) give ha_open 101
\* and ha_close 100.5, then ha_open 100.75.
C16_HeikinAshiRecurrence ==
    InCompute =>
        LET bars == last.candles
            ha   == last.ha
        IN  /\ Len(ha) = Len(bars)
            /\ \A i \in 1..Len(ha) :
                  /\ ha[i].timestamp = bars[i].timestamp
                  /\ 4 * ha[i].ha_close =
                        bars[i].open + bars[i].high + bars[i].low + bars[i].close
                  /\ 2 * ha[i].ha_open =
                        IF i = 1 THEN bars[1].open + bars[1].close
                        ELSE ha[i - 1].ha_open + ha[i - 1].ha_close
                  /\ ha[i].ha_high \in {bars[i].high, ha[i].ha_open, ha[i].ha_close}
                  /\ ha[i].ha_high >= bars[i].high
                  /\ ha[i].ha_high >= ha[i].ha_open
                  /\ ha[i].ha_high >= ha[i].ha_close
                  /\ ha[i].ha_low \in {bars[i].low, ha[i].ha_open, ha[i].ha_close}
                  /\ ha[i].ha_low <= bars[i].low
                  /\ ha[i].ha_low <= ha[i].ha_open
                  /\ ha[i].ha_low <= ha[i].ha_close
            /\ bars = Feed(<<ExampleBar1, ExampleBar2>>, 2) =>
                  /\ ha[1].ha_open = 101 * Unit
                  /\ 2 * ha[1].ha_close = 201 * Unit
                  /\ 4 * ha[2].ha_open = 403 * Unit

\* the two bars of the worked example, followed by a third
C16_Witness ==
    /\ InCompute
    /\ Len(last.candles) = 3
    /\ SubSeq(last.candles, 1, 2) = Feed(<<ExampleBar1, ExampleBar2>>, 2)
    /\ 4 * last.ha[2].ha_open = 403 * Unit
    /\ last.ha[3].ha_open # last.ha[2].ha_close

\* C17: with risk_amount = capital * risk% and per_unit_risk = entry *
\* stop-loss%, the quantity is the fallback quantity when per_unit_risk <= 0
\* and otherwise the larger of floor(risk_amount / per_unit_risk) and the
\* fallback quantity, so never less than the fallback; capital 100000,
\* risk 1%, stop-loss 1%, entry 200, fallback 50 give 500.
C17_RiskSizedQuantity ==
    InCalcQty =>
        LET cf  == last.config
            qty == last.qty
            \* risk_amount / per_unit_risk = num / den
            num == cf.capital_per_trade * cf.max_risk_per_trade_pct * Unit
            den == last.entry_price * cf.stop_loss_pct
        IN  /\ qty >= cf.fallback_qty
            /\ den <= 0 => qty = cf.fallback_qty
            /\ (den > 0 /\ qty > cf.fallback_qty) =>
                  /\ qty * den <= num
                  /\ num < (qty + 1) * den
            /\ (den > 0 /\ qty = cf.fallback_qty) =>
                  num < (cf.fallback_qty + 1) * den
            /\ (/\ cf.capital_per_trade = 100000
                /\ cf.max_risk_per_trade_pct = 1
                /\ cf.stop_loss_pct = 1
                /\ cf.fallback_qty = 50
                /\ last.entry_price = 200 * Unit) => qty = 500

\* the quotient 1000 / 3 is rounded down to 333, above the fallback of 50
C17_Witness ==
    /\ InCalcQty
    /\ last.config.fallback_qty = 50
    /\ last.entry_price = 300 * Unit
    /\ last.config.stop_loss_pct = 1
    /\ last.qty = 333

\* the quotient 10 / 30 is rounded down to 0 and the fallback is used
C17_WitnessFallback ==
    /\ InCalcQty
    /\ last.config.capital_per_trade = 1000
    /\ last.config.max_risk_per_trade_pct = 1
    /\ last.config.stop_loss_pct = 1
    /\ last.entry_price = 3000 * Unit
    /\ last.qty = last.config.fallback_qty

\* the fields of a position that are fixed when it is opened
FixedFields(pos) ==
    << pos.side, pos.qty, pos.entry_price, pos.stop_loss, pos.target >>

\* C18: a successful open sets stop_loss = entry * (1 - sl%) and target =
\* entry * (1 + tp%) for LONG, stop_loss = entry * (1 + sl%) and target =
\* entry * (1 - tp%) for SHORT, trailing_stop = stop_loss and extreme_price
\* = entry_price; a later price update changes none of side, qty,
\* entry_price, stop_loss and target of the held position, whether it stays
\* open or is closed by that update.
C18_LevelsSetOnceAtOpen ==
    /\ (InOpen /\ last.pre_position = NoPosition /\ position # NoPosition) =>
          LET e == last.price
          IN  /\ position.entry_price = e
              /\ position.qty >= config.fallback_qty
              /\ position.trailing_stop = position.stop_loss
              /\ position.extreme_price = e
              /\ IF last.kind = "open_long"
                 THEN /\ position.side = "LONG"
                      /\ 100 * position.stop_loss
                            = e * (100 - config.stop_loss_pct)
                      /\ 100 * position.target
                            = e * (100 + config.profit_target_pct)
                 ELSE /\ position.side = "SHORT"
                      /\ 100 * position.stop_loss
                            = e * (100 + config.stop_loss_pct)
                      /\ 100 * position.target
                            = e * (100 - config.profit_target_pct)
    /\ (InUpdate /\ last.pre_position # NoPosition) =>
          /\ FixedFields(last.r.arg_obj) = FixedFields(last.pre_position)
          /\ position # NoPosition =>
                FixedFields(position) = FixedFields(last.pre_position)

\* a price update ratchets the trailing stop of a SHORT position
C18_Witness ==
    /\ InUpdate
    /\ last.pre_position # NoPosition
    /\ position # NoPosition
    /\ position.side = "SHORT"
    /\ position.trailing_stop < last.pre_position.trailing_stop
    /\ 100 * position.stop_loss
          = position.entry_price * (100 + config.stop_loss_pct)

\* the candle is a doji: it has a positive range and a body of at most one
\* tenth of it
IsDoji(candle) ==
    /\ candle.ha_high - candle.ha_low > 0
    /\ 10 * Abs(candle.ha_close - candle.ha_open)
          <= candle.ha_high - candle.ha_low

\* the candle has a positive range and a body of more than 0.3 of it
IsStrong(candle) ==
    /\ candle.ha_high - candle.ha_low > 0
    /\ 10 * Abs(candle.ha_close - candle.ha_open)
          > 3 * (candle.ha_high - candle.ha_low)

\* C19: with require_trend set the rule matches exactly when the history
\* has at least two smoothed candles, the last one is a doji, and the one
\* before it has a positive range and a body of strictly more than 0.3 of
\* that range; when it does not match, no signal_direction is set.
C19_SignalIffDojiAfterStrongCandle ==
    InCheck =>
        /\ last.require_trend =>
              (last.r.matched <=>
                 /\ Len(last.ha) >= 2
                 /\ IsDoji(last.ha[Len(last.ha)])
                 /\ IsStrong(last.ha[Len(last.ha) - 1]))
        /\ ~ last.r.matched => last.r.signal_direction = ""

\* a doji after a bearish candle with a body of more than 0.3 of its range
C19_Witness ==
    /\ InCheck
    /\ last.require_trend
    /\ last.r.matched
    /\ last.r.signal_direction = "LONG"
    /\ IsStrong(last.ha[Len(last.ha) - 1])

\* a doji after a candle whose body is exactly 0.3 of its range: no signal
C19_WitnessBoundary ==
    /\ InCheck
    /\ last.require_trend
    /\ Len(last.ha) >= 2
    /\ IsDoji(last.ha[Len(last.ha)])
    /\ LET prev == last.ha[Len(last.ha) - 1]
       IN  10 * Abs(prev.ha_close - prev.ha_open)
             = 3 * (prev.ha_high - prev.ha_low)
    /\ last.ha[Len(last.ha) - 1].ha_high > last.ha[Len(last.ha) - 1].ha_low
    /\ ~ last.r.matched

\* C20 as stated: a cycle does not modify the Position object the caller
\* holds; until the caller stores the returned position, its object is as
\* it was before the call.
C20_PassedByValue ==
    InCycle => position = last.pre_position

\* the quote is a new extreme for the held position
NewExtreme(pos, price) ==
    IF pos.side = "LONG" THEN price > pos.extreme_price
    ELSE price < pos.extreme_price

\* C20, amended: the Position is passed by reference.  A cycle that applies
\* a quote which is a new extreme writes extreme_price (and the trailing
\* stop, when it tightens) into the caller's object, before anything is
\* returned; side, qty, entry_price, stop_loss and target of that object
\* are never written.  A position that stays open is returned as that same
\* object; an exit, and the opening of a position, reach the caller only
\* through the returned position.
C20_SharedObjectRatchetedInPlace ==
    InCycle =>
        /\ last.pre_position = NoPosition => position = NoPosition
        /\ last.pre_position # NoPosition =>
              /\ position # NoPosition
              /\ FixedFields(position) = FixedFields(last.pre_position)
              /\ position.order_id = last.pre_position.order_id
              /\ position.extreme_price =
                    IF last.r.opu_called
                       /\ NewExtreme(last.pre_position, last.price)
                    THEN last.price
                    ELSE last.pre_position.extreme_price
              /\ position.extreme_price = last.pre_position.extreme_price
                    => position = last.pre_position
              /\ last.r.position # NoPosition => last.r.position = position

\* the caller's object is ratcheted by the cycle that closes the position
C20_Witness ==
    /\ InCycle
    /\ last.pre_position # NoPosition
    /\ position.extreme_price # last.pre_position.extreme_price
    /\ position.trailing_stop # last.pre_position.trailing_stop
    /\ last.r.position = NoPosition

\* the trailing stop is at least as tight as the hard stop and the extreme
\* is on the favourable side of the entry price
WellFormedLevels(pos) ==
    IF pos.side = "LONG"
    THEN /\ pos.trailing_stop >= pos.stop_loss
         /\ pos.extreme_price >= pos.entry_price
    ELSE /\ pos.trailing_stop <= pos.stop_loss
         /\ pos.extreme_price <= pos.entry_price

\* C21: every held position has trailing_stop >= stop_loss and
\* extreme_price >= entry_price when LONG, trailing_stop <= stop_loss and
\* extreme_price <= entry_price when SHORT; so has the Position object a
\* price update worked on, also when that update closed it.
C21_TrailNeverLooserThanStop ==
    /\ position # NoPosition => WellFormedLevels(position)
    /\ (InUpdate /\ last.pre_position # NoPosition) =>
          WellFormedLevels(last.r.arg_obj)

\* a new high of a LONG position whose candidate trail lies below the hard
\* stop: the extreme moves, the trailing stop stays on the hard stop
C21_Witness ==
    /\ InUpdate
    /\ position # NoPosition
    /\ position.side = "LONG"
    /\ position.extreme_price > position.entry_price
    /\ position.trailing_stop = position.stop_loss
    /\ (position.extreme_price * (100 - config.trailing_stop_pct)) \div 100
          < position.stop_loss

\* C22: a successful open submits exactly one order, the entry order, BUY
\* for LONG and SELL for SHORT, for the quantity the position records;
\* while the position is held its side and quantity stay as recorded and no
\* call but a price update that decides an exit submits an order; that
\* update submits exactly one order, the exit order, of the opposite side
\* and the recorded quantity, and leaves the state FLAT, so a position gets
\* at most one exit order, after its entry order; in state FLAT a price
\* update submits no order and an open submits no exit order.
C22_ExitMirrorsEntry ==
    /\ (InOpen /\ last.pre_position = NoPosition /\ position # NoPosition) =>
          /\ Len(last.r.orders) = 1
          /\ last.r.orders[1].purpose = "entry"
          /\ Truthy(last.r.orders[1].order_id)
          /\ last.r.orders[1].qty = position.qty
          /\ last.r.orders[1].side =
                (IF position.side = "LONG" THEN "BUY" ELSE "SELL")
    /\ ((InOpen \/ InUpdate) /\ last.pre_position # NoPosition) =>
          /\ position # NoPosition =>
                /\ last.r.orders = <<>>
                /\ position.side = last.pre_position.side
                /\ position.qty = last.pre_position.qty
          /\ position = NoPosition =>
                /\ InUpdate
                /\ Len(last.r.orders) = 1
                /\ last.r.orders[1].purpose = "exit"
                /\ last.r.orders[1].qty = last.pre_position.qty
                /\ last.r.orders[1].side =
                      (IF last.pre_position.side = "LONG" THEN "SELL" ELSE "BUY")
    /\ ((InOpen \/ InUpdate) /\ last.pre_position = NoPosition) =>
          ExitOrders(last.r.orders) = <<>>

\* a SHORT position is closed by a BUY order for its quantity
C22_Witness ==
    /\ InUpdate
    /\ last.pre_position # NoPosition
    /\ last.pre_position.side = "SHORT"
    /\ position = NoPosition
    /\ Len(last.r.orders) = 1
    /\ last.r.orders[1].side = "BUY"
    /\ last.r.orders[1].qty = last.pre_position.qty
    /\ last.pre_position.qty > 0

\* the cycle found a matched signal on a new bar and its entry order failed
FailedEntryCycle ==
    /\ SignalAnnounced
    /\ last.pre_position = NoPosition
    /\ Len(EntryOrders(last.r.orders)) = 1
    /\ ~ Truthy(EntryOrders(last.r.orders)[1].order_id)

\* C23: a cycle whose matched signal on a new bar ends in a failed entry
\* order returns that bar's timestamp and no position; the caller stores
\* the returned pair; and a cycle that starts FLAT and is offered the
\* timestamp the caller holds (or no bars) submits no entry order, returns
\* no position and returns the held timestamp.  So the entry is not tried
\* again until a bar with another timestamp arrives.
C23_FailedEntryNotRetried ==
    /\ [](FailedEntryCycle =>
             /\ last.r.ts = last.feed_ts
             /\ last.r.ts # last.pre_ts
             /\ last.r.after_entry = NoPosition
             /\ last.r.position = NoPosition
             /\ Len(last.r.orders) = 1)
    /\ []((/\ InCycle
           /\ last.pre_position = NoPosition
           /\ (last.feed_ts = last.pre_ts \/ last.feed_len = 0)) =>
             /\ last.r.orders = <<>>
             /\ last.r.position = NoPosition
             /\ last.r.ts = last.pre_ts)
    /\ [][(pc = "returned") =>
             /\ last_candle_ts' = last.r.ts
             /\ position' = last.r.position]_vars

\* the entry order of a LONG signal fails while a quote is on offer
C23_Witness ==
    /\ FailedEntryCycle
    /\ last.r.direction = "LONG"
    /\ last.price # NoLtp
    /\ last.r.ts = last.feed_ts
    /\ last.r.position = NoPosition

\* C24: a cycle submits at most two orders, at most one entry order and at
\* most one exit order, the entry order first.  A position opened by the
\* entry step gets the price update of the same cycle: with a quote the
\* update runs on it, and when the update decides an exit (as it does when
\* the quote meets the target or the hard stop) the cycle submits the
\* mirroring exit order and returns no position.  A
\* cycle that starts with a position and exits it submits no entry order
\* and returns no position.
C24_AtMostEntryThenExit ==
    InCycle =>
        /\ Len(last.r.orders) <= 2
        /\ Len(EntryOrders(last.r.orders)) <= 1
        /\ Len(ExitOrders(last.r.orders)) <= 1
        /\ Len(last.r.orders) = 2 =>
              /\ last.r.orders[1].purpose = "entry"
              /\ last.r.orders[2].purpose = "exit"
        /\ (/\ last.pre_position = NoPosition
            /\ last.r.after_entry # NoPosition
            /\ last.price # NoLtp) =>
              LET opened == last.r.after_entry
                  hit    == \/ TargetHit(opened, last.price)
                            \/ StopHit(opened, last.price)
              IN  /\ last.r.opu_called
                  /\ hit => last.r.reason # ""
                  /\ last.r.reason # "" =>
                        /\ last.r.position = NoPosition
                        /\ Len(last.r.orders) = 2
                        /\ last.r.orders[2].qty = last.r.orders[1].qty
                        /\ last.r.orders[2].side # last.r.orders[1].side
                  /\ last.r.reason = "" =>
                        /\ last.r.position # NoPosition
                        /\ FixedFields(last.r.position) = FixedFields(opened)
                        /\ Len(last.r.orders) = 1
        /\ (last.pre_position # NoPosition /\ last.r.reason # "") =>
              /\ last.r.position = NoPosition
              /\ EntryOrders(last.r.orders) = <<>>
              /\ Len(last.r.orders) = 1

\* a position is opened and closed by its hard stop in the same cycle
C24_Witness ==
    /\ InCycle
    /\ last.pre_position = NoPosition
    /\ last.r.after_entry # NoPosition
    /\ Len(last.r.orders) = 2
    /\ last.r.reason = "hard_stop_loss_hit"
    /\ last.r.position = NoPosition

\* a held position exits in a cycle whose new bar carries a matched signal
C24_WitnessNoReentry ==
    /\ SignalAnnounced
    /\ last.pre_position # NoPosition
    /\ last.r.reason # ""
    /\ last.r.position = NoPosition

\* a price update on a held position whose price is a new extreme
RatchetingUpdate ==
    /\ InUpdate
    /\ last.pre_position # NoPosition
    /\ NewExtreme(last.pre_position, last.price)

\* C25: with a positive stop-loss percent and a positive trailing percent,
\* a price update whose price is a new extreme never exits with the
\* trailing-stop or the hard-stop reason; it exits with the target reason,
\* which it does exactly when the price meets the target, or it leaves the
\* position open with the price as extreme and with the tighter of the old
\* trailing stop and price * (1 -/+ trailing%) as trailing stop.
C25_RatchetDoesNotSelfTrigger ==
    (/\ RatchetingUpdate
     /\ config.stop_loss_pct > 0
     /\ config.trailing_stop_pct > 0) =>
        LET pre   == last.pre_position
            price == last.price
            cand  == IF pre.side = "LONG"
                     THEN price * (100 - config.trailing_stop_pct)
                     ELSE price * (100 + config.trailing_stop_pct)
        IN  /\ last.r.reason \in {"", "profit_target_hit"}
            /\ (last.r.reason = "profit_target_hit") <=> TargetHit(pre, price)
            /\ last.r.reason = "" =>
                  /\ position # NoPosition
                  /\ position.extreme_price = price
                  /\ 100 * position.trailing_stop =
                        IF pre.side = "LONG"
                        THEN Max2(100 * pre.trailing_stop, cand)
                        ELSE Min2(100 * pre.trailing_stop, cand)
                  /\ ~ TrailHit(position, price)
                  /\ ~ StopHit(position, price)

\* a new low tightens the trailing stop of a SHORT position, which stays open
C25_Witness ==
    /\ RatchetingUpdate
    /\ config.trailing_stop_pct > 0
    /\ last.pre_position.side = "SHORT"
    /\ last.r.reason = ""
    /\ position # NoPosition
    /\ position.trailing_stop < last.pre_position.trailing_stop

\* outside the claim's condition: with a trailing percent of 0 the new
\* extreme is its own trailing stop, and the update exits on it
C25_WitnessZeroPercent ==
    /\ RatchetingUpdate
    /\ config.trailing_stop_pct = 0
    /\ last.r.reason = "trailing_stop_hit"

====
